---------------------------- MODULE Spec2Model ----------------------------
(***************************************************************************)
(* A model of src/app.py: the Predictor of the WaifuDiffusion tagger.      *)
(*                                                                         *)
(*   - load_labels, mcut_threshold and the result pipeline of              *)
(*     Predictor.predict are operators, computed as the code computes      *)
(*     them;                                                               *)
(*   - Predictor.load_model / Predictor.predict are a state machine over   *)
(*     the attributes of one shared Predictor, one step per attribute      *)
(*     read or write (the granularity at which CPython threads switch).    *)
(*                                                                         *)
(* Conventions.                                                            *)
(*   - A str is a tuple of one-character strings.                          *)
(*   - A confidence or threshold is an integer number of 1/40 (0.025):     *)
(*     0.15 is 6, 0.35 is 14, 0.9 is 36.  Confidences are even, so that    *)
(*     the midpoint (a + b) / 2 of mcut_threshold is exact.                *)
(*   - Sequences are 1-based: Python index i is i + 1 here.                *)
(*   - A Python exception is a record [status |-> <exception name>].       *)
(***************************************************************************)
EXTENDS Integers, Sequences, FiniteSets, TLC

(***************************************************************************)
(* Strings                                                                 *)
(***************************************************************************)
\* str.replace(old, new) for a one-character old: every occurrence, left to right.
RECURSIVE replace(_, _, _)
replace(s, old, new) ==
    IF s = <<>> THEN <<>>
    ELSE (IF Head(s) = old THEN new ELSE <<Head(s)>>) \o replace(Tail(s), old, new)

\* sep.join(parts)
RECURSIVE join(_, _)
join(sep, parts) ==
    IF parts = <<>> THEN <<>>
    ELSE IF Len(parts) = 1 THEN parts[1]
    ELSE parts[1] \o sep \o join(sep, Tail(parts))

kaomojis ==
    { <<"0", "_", "0">>,
      <<"(", "o", ")", "_", "(", "o", ")">>,
      <<"+", "_", "+">>,
      <<"+", "_", "-">>,
      <<".", "_", ".">>,
      <<"<", "o", ">", "_", "<", "o", ">">>,
      <<"<", "|", ">", "_", "<", "|", ">">>,
      <<"=", "_", "=">>,
      <<">", "_", "<">>,
      <<"3", "_", "3">>,
      <<"6", "_", "9">>,
      <<">", "_", "o">>,
      <<"@", "_", "@">>,
      <<"^", "_", "^">>,
      <<"o", "_", "o">>,
      <<"u", "_", "u">>,
      <<"x", "_", "x">>,
      <<"|", "_", "|">>,
      <<"|", "|", "_", "|", "|">> }

(***************************************************************************)
(* load_labels                                                             *)
(***************************************************************************)
\* list(np.where(column == code)[0]): the row positions, ascending.
RECURSIVE where(_, _, _)
where(dataframe, code, i) ==
    IF i > Len(dataframe) THEN <<>>
    ELSE (IF dataframe[i].category = code THEN <<i>> ELSE <<>>)
         \o where(dataframe, code, i + 1)

load_labels(dataframe) ==
    [ tag_names |->
        [ i \in 1..Len(dataframe) |->
            IF dataframe[i].name \notin kaomojis
            THEN replace(dataframe[i].name, "_", <<" ">>)
            ELSE dataframe[i].name ],
      rating_indexes    |-> where(dataframe, 9, 1),
      general_indexes   |-> where(dataframe, 0, 1),
      character_indexes |-> where(dataframe, 4, 1) ]

(***************************************************************************)
(* mcut_threshold                                                          *)
(***************************************************************************)
\* probs[probs.argsort()[::-1]]: the values in descending order.
RECURSIVE insert_desc(_, _)
insert_desc(x, s) ==
    IF s = <<>> THEN <<x>>
    ELSE IF x > Head(s) THEN <<x>> \o s
    ELSE <<Head(s)>> \o insert_desc(x, Tail(s))

RECURSIVE sort_desc(_)
sort_desc(probs) ==
    IF probs = <<>> THEN <<>>
    ELSE insert_desc(Head(probs), sort_desc(Tail(probs)))

\* sorted_probs[:-1] - sorted_probs[1:]
difs_of(sorted_probs) ==
    [ k \in 1..(Len(sorted_probs) - 1) |-> sorted_probs[k] - sorted_probs[k + 1] ]

\* argmax taking the last position of the maximum instead of the first.
argmax_last(difs) ==
    CHOOSE k \in 1..Len(difs) :
        /\ \A j \in 1..Len(difs) : difs[j] <= difs[k]
        /\ \A j \in (k + 1)..Len(difs) : difs[j] < difs[k]

\* ndarray.argmax(): the first position of the maximum; only called on a non-empty array.
argmax(difs) ==
    CHOOSE k \in 1..Len(difs) :
        /\ \A j \in 1..Len(difs) : difs[j] <= difs[k]
        /\ \A j \in 1..(k - 1) : difs[j] < difs[k]

\* numpy raises ValueError ("attempt to get an argmax of an empty sequence") when
\* difs is empty, that is when probs has fewer than two entries.
mcut_threshold(probs) ==
    LET sorted_probs == sort_desc(probs)
        difs == difs_of(sorted_probs)
    IN  IF Len(difs) = 0 THEN [status |-> "ValueError"]
        ELSE LET t == argmax(difs)
             IN  [status |-> "ok",
                  thresh |-> (sorted_probs[t] + sorted_probs[t + 1]) \div 2]

(***************************************************************************)
(* Predictor.predict, lines 190-227: from the prediction vector to the     *)
(* four returned values.                                                   *)
(***************************************************************************)
Min(a, b) == IF a < b THEN a ELSE b
Max(a, b) == IF a > b THEN a ELSE b

\* list(zip(self.tag_names, preds[0].astype(float))): stops at the shorter of the two.
zip(tag_names, preds) ==
    [ i \in 1..Min(Len(tag_names), Len(preds)) |->
        [name |-> tag_names[i], conf |-> preds[i]] ]

\* [labels[i] for i in indexes]: IndexError when an index is past the end of labels.
pick(labels, indexes) ==
    IF \E k \in 1..Len(indexes) : indexes[k] > Len(labels)
    THEN [status |-> "IndexError"]
    ELSE [status |-> "ok",
          names |-> [ k \in 1..Len(indexes) |-> labels[indexes[k]] ]]

\* dict(pairs): a key keeps the position of its first pair and the value of its last.
RECURSIVE dict(_)
dict(pairs) ==
    IF pairs = <<>> THEN <<>>
    ELSE LET init == dict(SubSeq(pairs, 1, Len(pairs) - 1))
             last == pairs[Len(pairs)]
         IN  IF \E k \in 1..Len(init) : init[k].name = last.name
             THEN [ k \in 1..Len(init) |->
                      IF init[k].name = last.name THEN last ELSE init[k] ]
             ELSE Append(init, last)

\* The comparison with the boundary let through.
accept_ge(conf, thresh) == conf >= thresh

\* x[1] > thresh
accept(conf, thresh) == conf > thresh

\* [x for x in names if x[1] > thresh]
above(names, thresh) == SelectSeq(names, LAMBDA x : accept(x.conf, thresh))

\* np.array([x[1] for x in names])
probs_of(names) == [ k \in 1..Len(names) |-> names[k].conf ]

\* The clamp left out.
character_floor_missing(thresh) == thresh

\* max(0.15, character_thresh)
character_floor(thresh) == Max(6, thresh)

\* lines 197-204
general_stage(labels, general_indexes, general_thresh, general_mcut_enabled) ==
    LET general_names == pick(labels, general_indexes)
    IN  IF general_names.status # "ok" THEN general_names
        ELSE LET m == IF general_mcut_enabled
                      THEN mcut_threshold(probs_of(general_names.names))
                      ELSE [status |-> "ok", thresh |-> general_thresh]
             IN  IF m.status # "ok" THEN m
                 ELSE [status |-> "ok", thresh |-> m.thresh,
                       res |-> dict(above(general_names.names, m.thresh))]

\* lines 207-215
character_stage(labels, character_indexes, character_thresh, character_mcut_enabled) ==
    LET character_names == pick(labels, character_indexes)
    IN  IF character_names.status # "ok" THEN character_names
        ELSE LET m == IF character_mcut_enabled
                      THEN mcut_threshold(probs_of(character_names.names))
                      ELSE [status |-> "ok", thresh |-> character_thresh]
             IN  IF m.status # "ok" THEN m
                 ELSE LET thresh == IF character_mcut_enabled
                                    THEN character_floor(m.thresh)
                                    ELSE m.thresh
                      IN  [status |-> "ok", thresh |-> thresh,
                           res |-> dict(above(character_names.names, thresh))]

\* lines 193-194
rating_stage(labels, rating_indexes) ==
    LET ratings_names == pick(labels, rating_indexes)
    IN  IF ratings_names.status # "ok" THEN ratings_names
        ELSE [status |-> "ok", res |-> dict(ratings_names.names)]

\* An insertion that puts an item after the later items of equal confidence.
RECURSIVE insert_item_after_equal(_, _)
insert_item_after_equal(x, s) ==
    IF s = <<>> THEN <<x>>
    ELSE IF x.conf > Head(s).conf THEN <<x>> \o s
    ELSE <<Head(s)>> \o insert_item_after_equal(x, Tail(s))

\* sorted(items, key=lambda x: x[1], reverse=True): stable, so items of equal
\* confidence keep their order.
RECURSIVE insert_item(_, _)
insert_item(x, s) ==
    IF s = <<>> THEN <<x>>
    ELSE IF x.conf >= Head(s).conf THEN <<x>> \o s
    ELSE <<Head(s)>> \o insert_item(x, Tail(s))

RECURSIVE sorted(_)
sorted(items) ==
    IF items = <<>> THEN <<>>
    ELSE insert_item(Head(items), sorted(Tail(items)))

\* .replace("(", "\\(").replace(")", "\\)")
escape(s) == replace(replace(s, "(", <<"\\", "(">>), ")", <<"\\", ")">>)

\* lines 217-225
format(general_res) ==
    LET sorted_general_strings == sorted(general_res)
        names == [ k \in 1..Len(sorted_general_strings) |-> sorted_general_strings[k].name ]
    IN  escape(join(<<",", " ">>, names))

\* lines 190-227 as one function of what predict read and was given: the four
\* returned values, or the exception.
predict_result(tag_names, rating_indexes, general_indexes, character_indexes, preds, general_thresh, general_mcut_enabled, character_thresh, character_mcut_enabled) ==
    LET labels == zip(tag_names, preds)
        rating == rating_stage(labels, rating_indexes)
        general == general_stage(labels, general_indexes, general_thresh,
                                 general_mcut_enabled)
        character == character_stage(labels, character_indexes, character_thresh,
                                     character_mcut_enabled)
    IN  IF rating.status # "ok" THEN [status |-> rating.status]
        ELSE IF general.status # "ok" THEN [status |-> general.status]
        ELSE IF character.status # "ok" THEN [status |-> character.status]
        ELSE [status |-> "ok",
              sorted_general_strings |-> format(general.res),
              rating |-> rating.res,
              character_res |-> character.res,
              general_res |-> general.res,
              \* the locals general_thresh and character_thresh at line 227
              general_thresh |-> general.thresh,
              character_thresh |-> character.thresh]

(***************************************************************************)
(* The artifact store: what hf_hub_download, pd.read_csv and               *)
(* rt.InferenceSession give for each repository.  The repositories are     *)
(* external; three stand for the twelve of the dropdown list, with label   *)
(* tables of different lengths (the v2, v3 and IdolSankaku series have     *)
(* different tag sets) and one classifier of another input size.           *)
(***************************************************************************)
Models == {"m1", "m2", "m3"}

\* The names of a label table, by row.  Names are unique within a table.
RawNames ==
    << <<"a", "_", "b">>,
       <<"c", "(", "d", ")">>,
       <<"^", "_", "^">>,
       <<"e">>,
       <<"f", "_", "(", "g", ")">>,
       <<"h">> >>

\* A label table: rows of (name, category), the names those of RawNames.
TableOf(categories) ==
    [ i \in 1..Len(categories) |-> [name |-> RawNames[i], category |-> categories[i]] ]

\* selected_tags.csv of a repository, as pd.read_csv returns it.
Table(model_repo) ==
    CASE model_repo = "m1" -> TableOf(<<9, 0, 0, 4>>)
      [] model_repo = "m2" -> TableOf(<<9, 0, 4, 0, 4>>)
      [] model_repo = "m3" -> TableOf(<<0, 9, 4>>)

\* The declared input edge length of a repository's model.onnx.
TargetSize(model_repo) == IF model_repo = "m3" THEN 384 ELSE 448

\* What a repository's classifier returns for the image: one confidence per row
\* of that repository's label table.
Output(model) ==
    CASE model = "m1" -> <<36, 20, 4, 24>>
      [] model = "m2" -> <<24, 36, 4, 20, 36>>
      [] model = "m3" -> <<20, 36, 4>>

(***************************************************************************)
(* State                                                                   *)
(***************************************************************************)
VARIABLES
    self,       \* the attributes of the shared Predictor
    th,         \* per caller: position in load_model / predict, arguments, locals
    calls,      \* number of calls started so far
    prev,       \* the call before the current one: its identifier, how its
                \* load_model ended, and the identifier cached when it began
    input,      \* a label table, the catalog load_labels makes of it, and the
                \* prediction vector and thresholds given to predict
    out         \* what predict returned for input

vars == <<self, th, calls, prev, input, out>>

\* Callers of the Predictor: gradio runs each request's handler on a worker thread.
NThreads == 2
Threads == 1..NThreads

\* Calls started in one behaviour: by the one caller of Spec, and by the two
\* callers of SpecConc together.
MaxCalls == 3
MaxConcCalls == 2

\* --score-general-threshold and --score-character-threshold defaults, in 1/40.
score_general_threshold == 14
score_character_threshold == 34

\* Predictor.__init__: tag_names, the index lists and model are not yet attributes.
Predictor ==
    [ attrs |-> {"model_target_size", "last_loaded_repo"},
      model_target_size |-> 0,
      last_loaded_repo |-> "None",
      tag_names |-> <<>>,
      rating_indexes |-> <<>>,
      general_indexes |-> <<>>,
      character_indexes |-> <<>>,
      model |-> "None" ]

NoResult == [status |-> "none"]

Idle ==
    [ pc |-> "idle", kind |-> "none", model_repo |-> "None",
      target_size |-> 0, m_in |-> "None", m_out |-> "None", m_run |-> "None",
      preds |-> <<>>, tag_names |-> <<>>, rating_indexes |-> <<>>,
      general_indexes |-> <<>>, character_indexes |-> <<>>,
      rating |-> <<>>, general |-> <<>>, character |-> <<>>,
      result |-> NoResult,
      \* history of the call: the Predictor when it began, the download_model
      \* calls it made, and how its load_model ended
      entry |-> Predictor, fetches |-> 0, loaded |-> "none" ]

NoInput ==
    [ table |-> <<>>, catalog |-> load_labels(<<>>), preds |-> <<>>,
      general_thresh |-> 0, general_mcut_enabled |-> FALSE,
      character_thresh |-> 0, character_mcut_enabled |-> FALSE ]

Init ==
    /\ self = Predictor
    /\ th = [t \in Threads |-> Idle]
    /\ calls = 0
    /\ prev = [model_repo |-> "None", loaded |-> "none", cached |-> "None"]
    /\ input = NoInput
    /\ out = NoResult

(***************************************************************************)
(* Steps of one caller t.  pc names the line of src/app.py about to run.   *)
(***************************************************************************)
at(t, line) == th[t].pc = line

\* The call ends: by an exception (status names it) or by its return value.
finish(t, res) == [th[t] EXCEPT !.pc = "idle", !.result = res]

\* A request arrives: predictor.predict(image, model_repo, ...) with the default
\* thresholds, or the load_model pre-warm.
call(t, kind, model_repo, limit) ==
    /\ at(t, "idle")
    /\ calls < limit
    /\ calls' = calls + 1
    /\ prev' = IF th[t].kind = "none" THEN prev
               ELSE [model_repo |-> th[t].model_repo, loaded |-> th[t].loaded,
                     cached |-> th[t].entry.last_loaded_repo]
    /\ th' = [th EXCEPT ![t] = [Idle EXCEPT !.pc = "L122", !.kind = kind,
                                            !.model_repo = model_repo,
                                            !.entry = self]]
    /\ UNCHANGED <<self, input, out>>

\* load_model returns to its caller: to predict line 184, or to the request.
load_return(t) ==
    IF th[t].kind = "predict"
    THEN [th[t] EXCEPT !.pc = "P143", !.loaded = "ok"]
    ELSE [finish(t, [status |-> "ok"]) EXCEPT !.loaded = "ok"]

\* load_model raises, and so does the predict that called it.
load_raise(t, exception) ==
    [finish(t, [status |-> exception]) EXCEPT !.loaded = exception]

\* A check that never finds the model cached.
cache_hit_never(model_repo, last_loaded_repo) == FALSE

\* line 122: if model_repo == self.last_loaded_repo: return
cache_hit(model_repo, last_loaded_repo) == model_repo = last_loaded_repo

L122(t) ==
    /\ at(t, "L122")
    /\ th' = [th EXCEPT ![t] = IF cache_hit(th[t].model_repo, self.last_loaded_repo)
                               THEN load_return(t)
                               ELSE [th[t] EXCEPT !.pc = "L125"]]
    /\ UNCHANGED <<self, calls, prev, input, out>>

\* line 125: download_model returns the two paths.
download_model(t) ==
    /\ at(t, "L125")
    /\ th' = [th EXCEPT ![t] = [th[t] EXCEPT !.pc = "L127", !.fetches = @ + 1]]
    /\ UNCHANGED <<self, calls, prev, input, out>>

\* A failed fetch that first forgets which model is cached.
download_model_raises_forgetting(t) ==
    /\ at(t, "L125")
    /\ self' = [self EXCEPT !.last_loaded_repo = "None"]
    /\ th' = [th EXCEPT ![t] = [load_raise(t, "FetchError") EXCEPT !.fetches = @ + 1]]
    /\ UNCHANGED <<calls, prev, input, out>>

\* line 125: hf_hub_download raises; nothing catches it in load_model or predict.
download_model_raises(t) ==
    /\ at(t, "L125")
    /\ th' = [th EXCEPT ![t] = [load_raise(t, "FetchError") EXCEPT !.fetches = @ + 1]]
    /\ UNCHANGED <<self, calls, prev, input, out>>

\* lines 127-128: pd.read_csv and load_labels.
L127(t) ==
    /\ at(t, "L127")
    /\ th' = [th EXCEPT ![t] = [th[t] EXCEPT !.pc = "L130"]]
    /\ UNCHANGED <<self, calls, prev, input, out>>

\* lines 127-128: the table cannot be parsed or lacks a column (KeyError).
L127_raises(t) ==
    /\ at(t, "L127")
    /\ th' = [th EXCEPT ![t] = load_raise(t, "ConfigurationError")]
    /\ UNCHANGED <<self, calls, prev, input, out>>

sep_tags(t) == load_labels(Table(th[t].model_repo))

\* self.<attr> = value
setattr(obj, attr, value) ==
    [[obj EXCEPT ![attr] = value] EXCEPT !.attrs = @ \cup {attr}]

store(t, attr, value, next) ==
    /\ self' = setattr(self, attr, value)
    /\ th' = [th EXCEPT ![t] = [th[t] EXCEPT !.pc = next]]
    /\ UNCHANGED <<calls, prev, input, out>>

L130(t) == at(t, "L130") /\ store(t, "tag_names", sep_tags(t).tag_names, "L131")
L131(t) == at(t, "L131") /\ store(t, "rating_indexes", sep_tags(t).rating_indexes, "L132")
L132(t) == at(t, "L132") /\ store(t, "general_indexes", sep_tags(t).general_indexes, "L133")
L133(t) == at(t, "L133") /\ store(t, "character_indexes", sep_tags(t).character_indexes, "L135")

\* line 135: model = rt.InferenceSession(model_path)
L135(t) ==
    /\ at(t, "L135")
    /\ th' = [th EXCEPT ![t] = [th[t] EXCEPT !.pc = "L136"]]
    /\ UNCHANGED <<self, calls, prev, input, out>>

\* line 135: the artifact does not load.
L135_raises(t) ==
    /\ at(t, "L135")
    /\ th' = [th EXCEPT ![t] = load_raise(t, "InferenceSessionError")]
    /\ UNCHANGED <<self, calls, prev, input, out>>

\* line 136: _, height, width, _ = model.get_inputs()[0].shape
L136(t) ==
    /\ at(t, "L136")
    /\ th' = [th EXCEPT ![t] = [th[t] EXCEPT !.pc = "L137"]]
    /\ UNCHANGED <<self, calls, prev, input, out>>

\* line 136: the declared input is not of rank four.
L136_raises(t) ==
    /\ at(t, "L136")
    /\ th' = [th EXCEPT ![t] = load_raise(t, "ValueError")]
    /\ UNCHANGED <<self, calls, prev, input, out>>

L137(t) == at(t, "L137") /\ store(t, "model_target_size", TargetSize(th[t].model_repo), "L139")
L139(t) == at(t, "L139") /\ store(t, "last_loaded_repo", th[t].model_repo, "L140")

\* line 140: self.model = model, and load_model returns.
L140(t) ==
    /\ at(t, "L140")
    /\ self' = setattr(self, "model", th[t].model_repo)
    /\ th' = [th EXCEPT ![t] = load_return(t)]
    /\ UNCHANGED <<calls, prev, input, out>>

(***************************************************************************)
(* predict after load_model has returned                                   *)
(***************************************************************************)
\* A read of self.<attr>: AttributeError when load_model has not yet assigned it.
read(t, attr, local, next) ==
    /\ th' = [th EXCEPT ![t] =
                IF attr \in self.attrs
                THEN [[th[t] EXCEPT ![local] = self[attr]] EXCEPT !.pc = next]
                ELSE finish(t, [status |-> "AttributeError"])]
    /\ UNCHANGED <<self, calls, prev, input, out>>

\* line 143 (prepare_image): target_size = self.model_target_size
P143(t) == at(t, "P143") /\ read(t, "model_target_size", "target_size", "P186")

\* line 186: input_name = self.model.get_inputs()[0].name
P186(t) == at(t, "P186") /\ read(t, "model", "m_in", "P187")

\* line 187: label_name = self.model.get_outputs()[0].name
P187(t) == at(t, "P187") /\ read(t, "model", "m_out", "P188")

\* line 188 with the session's reply: the classifier rejects a tensor of another
\* size than its declared input.
run(t, model) ==
    IF th[t].target_size # TargetSize(model)
    THEN finish(t, [status |-> "InvalidArgument"])
    ELSE [th[t] EXCEPT !.pc = "P190", !.m_run = model, !.preds = Output(model)]

\* line 188: preds = self.model.run([label_name], {input_name: image})[0]
P188(t) ==
    /\ at(t, "P188")
    /\ th' = [th EXCEPT ![t] =
                IF "model" \in self.attrs
                THEN run(t, self.model)
                ELSE finish(t, [status |-> "AttributeError"])]
    /\ UNCHANGED <<self, calls, prev, input, out>>

\* line 188: the tensor names were read from another session than the one run, and
\* this one does not know them.
P188_raises(t) ==
    /\ at(t, "P188")
    /\ "model" \in self.attrs
    /\ th[t].m_in # self.model \/ th[t].m_out # self.model
    /\ th' = [th EXCEPT ![t] = finish(t, [status |-> "InvalidArgument"])]
    /\ UNCHANGED <<self, calls, prev, input, out>>

\* line 190: labels = list(zip(self.tag_names, preds[0].astype(float)))
P190(t) == at(t, "P190") /\ read(t, "tag_names", "tag_names", "P193")

labels(t) == zip(th[t].tag_names, th[t].preds)

\* The locals of a stage that did not raise, or the exception.
stage(t, res, local, next) ==
    IF res.status = "ok"
    THEN [[th[t] EXCEPT ![local] = res.res] EXCEPT !.pc = next]
    ELSE finish(t, [status |-> res.status])

\* lines 193-194
P193(t) ==
    /\ at(t, "P193")
    /\ th' = [th EXCEPT ![t] =
                IF "rating_indexes" \in self.attrs
                THEN [stage(t, rating_stage(labels(t), self.rating_indexes),
                            "rating", "P197")
                        EXCEPT !.rating_indexes = self.rating_indexes]
                ELSE finish(t, [status |-> "AttributeError"])]
    /\ UNCHANGED <<self, calls, prev, input, out>>

\* lines 197-204
P197(t) ==
    /\ at(t, "P197")
    /\ th' = [th EXCEPT ![t] =
                IF "general_indexes" \in self.attrs
                THEN [stage(t, general_stage(labels(t), self.general_indexes,
                                             score_general_threshold, FALSE),
                            "general", "P207")
                        EXCEPT !.general_indexes = self.general_indexes]
                ELSE finish(t, [status |-> "AttributeError"])]
    /\ UNCHANGED <<self, calls, prev, input, out>>

\* lines 207-215
P207(t) ==
    /\ at(t, "P207")
    /\ th' = [th EXCEPT ![t] =
                IF "character_indexes" \in self.attrs
                THEN [stage(t, character_stage(labels(t), self.character_indexes,
                                               score_character_threshold, FALSE),
                            "character", "P217")
                        EXCEPT !.character_indexes = self.character_indexes]
                ELSE finish(t, [status |-> "AttributeError"])]
    /\ UNCHANGED <<self, calls, prev, input, out>>

\* lines 217-227
P217(t) ==
    /\ at(t, "P217")
    /\ th' = [th EXCEPT ![t] =
                finish(t, [status |-> "ok",
                           sorted_general_strings |-> format(th[t].general),
                           rating |-> th[t].rating,
                           character_res |-> th[t].character,
                           general_res |-> th[t].general])]
    /\ UNCHANGED <<self, calls, prev, input, out>>

(***************************************************************************)
(* Specifications                                                          *)
(***************************************************************************)
load_model_ok(t) ==
    \/ L122(t) \/ download_model(t) \/ L127(t)
    \/ L130(t) \/ L131(t) \/ L132(t) \/ L133(t)
    \/ L135(t) \/ L136(t) \/ L137(t) \/ L139(t) \/ L140(t)

load_model_raises(t) ==
    \/ download_model_raises(t) \/ L127_raises(t) \/ L135_raises(t) \/ L136_raises(t)

predict(t) ==
    \/ P143(t) \/ P186(t) \/ P187(t) \/ P188(t)
    \/ P190(t) \/ P193(t) \/ P197(t) \/ P207(t) \/ P217(t)

request(t, limit) ==
    \E kind \in {"load", "predict"}, m \in Models : call(t, kind, m, limit)

\* One caller: the calls on the Predictor follow one another.  P188_raises needs
\* self.model to change between lines 186 and 188, which takes a second caller.
Next == request(1, MaxCalls) \/ load_model_ok(1) \/ load_model_raises(1) \/ predict(1)

Spec == Init /\ [][Next]_vars

\* Two callers on the shared Predictor, and no artifact failure.
NextConc ==
    \E t \in Threads : request(t, MaxConcCalls) \/ load_model_ok(t) \/ predict(t) \/ P188_raises(t)

SpecConc == Init /\ [][NextConc]_vars

(***************************************************************************)
(* Properties of the cache (Spec, SpecConc)                                *)
(***************************************************************************)
\* What load_model(model_repo) assigns to the Predictor when it runs to its end.
Catalog(model_repo) == load_labels(Table(model_repo))

\* Every cached attribute of obj is the one of model_repo.
FromModel(obj, model_repo) ==
    /\ {"tag_names", "rating_indexes", "general_indexes", "character_indexes",
        "model"} \subseteq obj.attrs
    /\ obj.tag_names = Catalog(model_repo).tag_names
    /\ obj.rating_indexes = Catalog(model_repo).rating_indexes
    /\ obj.general_indexes = Catalog(model_repo).general_indexes
    /\ obj.character_indexes = Catalog(model_repo).character_indexes
    /\ obj.model = model_repo
    /\ obj.model_target_size = TargetSize(model_repo)

\* Everything caller t read from the Predictor in predict is of model_repo.
ReadFrom(t, model_repo) ==
    /\ th[t].target_size = TargetSize(model_repo)
    /\ th[t].m_in = model_repo /\ th[t].m_out = model_repo /\ th[t].m_run = model_repo
    /\ th[t].tag_names = Catalog(model_repo).tag_names
    /\ th[t].rating_indexes = Catalog(model_repo).rating_indexes
    /\ th[t].general_indexes = Catalog(model_repo).general_indexes
    /\ th[t].character_indexes = Catalog(model_repo).character_indexes

\* C1: with two calls running concurrently on the shared Predictor, a predict that
\* has read the cached state (target size, model, tag names, the three index
\* lists) has read all of it from one model, never one model's catalog with
\* another's handle.
C1_NoPartialSwap ==
    \A t \in Threads : at(t, "P217") => \E m \in Models : ReadFrom(t, m)

\* C2: when download_model fails in load_model, the failure reaches the caller,
\* every attribute of the Predictor is what it was before the call, and the
\* fetch was attempted once.
C2_FetchFailure ==
    \A t \in Threads :
        th[t].loaded = "FetchError" =>
            /\ at(t, "idle") /\ th[t].result.status = "FetchError"
            /\ self = th[t].entry
            /\ th[t].fetches = 1

\* A fetch that failed while another model was cached.
C2_Witness ==
    /\ th[1].loaded = "FetchError"
    /\ th[1].entry.last_loaded_repo \notin {"None", th[1].model_repo}
    /\ FromModel(self, th[1].entry.last_loaded_repo)

\* The load_model of caller t's current call has returned or raised.
LoadEnded(t) == th[t].loaded # "none"

\* It ended without a fetch and without a change to the Predictor.
NoOp(t) == th[t].fetches = 0 /\ self = th[t].entry /\ th[t].loaded = "ok"

\* It returned, for another identifier than the cached one, and everything
\* cached is of the new model.
Replaces(t) ==
    (th[t].loaded = "ok" /\ th[t].model_repo # th[t].entry.last_loaded_repo) =>
        /\ th[t].fetches = 1
        /\ self.last_loaded_repo = th[t].model_repo
        /\ FromModel(self, th[t].model_repo)

\* C3 as stated: of two consecutive calls with the same identifier the second is a
\* no-op, and a successful call with another identifier leaves catalog, handle,
\* target size and identifier of the new model.
C3_SameIdentifierNoOp ==
    LoadEnded(1) =>
        /\ prev.model_repo = th[1].model_repo => NoOp(1)
        /\ Replaces(1)

\* C3 amended: of two consecutive calls with the same identifier, the first of
\* which returned, the second is a no-op; and a successful call with another
\* identifier than the cached one leaves everything of the new model.
C3_NoOpAfterSuccess ==
    LoadEnded(1) =>
        /\ (prev.model_repo = th[1].model_repo /\ prev.loaded = "ok") => NoOp(1)
        /\ Replaces(1)

\* A call repeats the identifier of the call before it, which had replaced
\* another cached model.
C3_Witness ==
    /\ LoadEnded(1)
    /\ prev.model_repo = th[1].model_repo /\ prev.loaded = "ok"
    /\ prev.cached \notin {"None", prev.model_repo}
    /\ th[1].fetches = 0
    /\ FromModel(self, th[1].model_repo)

\* C4: when the classifier's output and the tag names predict pairs differ in
\* length, predict raises; it returns nothing computed from a truncated pairing.
C4_MismatchRaises ==
    \A t \in Threads :
        (th[t].kind = "predict" /\ th[t].result.status = "ok") =>
            Len(th[t].tag_names) = Len(th[t].preds)

\* C10: after any sequence of load_model calls, failed ones included, whenever no
\* call is in progress the cached catalog, handle and target size are those of
\* the model last_loaded_repo names.
C10_CacheOfLastLoaded ==
    ((\A t \in Threads : at(t, "idle")) /\ self.last_loaded_repo # "None") =>
        FromModel(self, self.last_loaded_repo)

(***************************************************************************)
(* predict as a function: any label table, any prediction vector aligned   *)
(* with it, any thresholds.                                                *)
(***************************************************************************)
\* Rows of a label table.
MaxTags == 4

\* Confidences 0, 0.1, 0.15, 0.5, 0.6 and 0.9; slider positions 0.05 and 0.5.
Levels == {0, 4, 6, 20, 24, 36}
Thresholds == {2, 20}

\* The category columns the tables are cut from; 1 is a code of no exported group.
Shapes == { <<0, 0, 0, 0, 0>>, <<4, 0, 4, 0, 4>>, <<9, 0, 4, 1, 0>> }

Tables == { TableOf(SubSeq(c, 1, n)) : c \in Shapes, n \in 1..MaxTags }

InitPure ==
    /\ self = Predictor
    /\ th = [t \in Threads |-> Idle]
    /\ calls = 0
    /\ prev = [model_repo |-> "None", loaded |-> "none", cached |-> "None"]
    /\ out = NoResult
    /\ \E table \in Tables :
       \E preds \in [1..Len(table) -> Levels] :
       \E general_thresh \in Thresholds, character_thresh \in Thresholds :
       \E general_mcut_enabled \in BOOLEAN, character_mcut_enabled \in BOOLEAN :
           input = [ table |-> table, catalog |-> load_labels(table), preds |-> preds,
                     general_thresh |-> general_thresh,
                     general_mcut_enabled |-> general_mcut_enabled,
                     character_thresh |-> character_thresh,
                     character_mcut_enabled |-> character_mcut_enabled ]

\* predict on a Predictor whose cached catalog is load_labels of the table and
\* whose classifier answers preds: lines 190-227 in one step.
predict_call ==
    /\ out = NoResult
    /\ out' = LET c == input.catalog
              IN  predict_result(c.tag_names, c.rating_indexes, c.general_indexes,
                                 c.character_indexes, input.preds,
                                 input.general_thresh, input.general_mcut_enabled,
                                 input.character_thresh, input.character_mcut_enabled)
    /\ UNCHANGED <<self, th, calls, prev, input>>

NextPure == predict_call

SpecPure == InitPure /\ [][NextPure]_vars

(***************************************************************************)
(* Properties of predict as a function (SpecPure)                          *)
(***************************************************************************)
Returned == out.status = "ok"
Raised == out.status \notin {"none", "ok"}

\* The rows of the input table of one category code, and their confidences.
Rows(code) == { i \in 1..Len(input.table) : input.table[i].category = code }
TagName(i) == input.catalog.tag_names[i]
Conf(i) == input.preds[i]

Keys(map) == { map[k].name : k \in 1..Len(map) }

\* map holds exactly the rows of the group whose confidence exceeds thresh, each
\* once and with its own confidence.
AcceptedExactly(map, rows, thresh) ==
    /\ \A i \in rows : (TagName(i) \in Keys(map)) <=> (Conf(i) > thresh)
    /\ \A k \in 1..Len(map) :
          \E i \in rows : /\ map[k].name = TagName(i)
                          /\ map[k].conf = Conf(i)
                          /\ Conf(i) > thresh
    /\ Cardinality(Keys(map)) = Len(map)

\* The k-th largest confidence of the rows, by counting.
Descending(rows, k) ==
    CHOOSE x \in { Conf(i) : i \in rows } :
        /\ Cardinality({ i \in rows : Conf(i) > x }) < k
        /\ k <= Cardinality({ i \in rows : Conf(i) >= x })

Gap(rows, k) == Descending(rows, k) - Descending(rows, k + 1)

\* The first position of the largest gap.
FirstLargestGap(rows) ==
    CHOOSE k \in 1..(Cardinality(rows) - 1) :
        /\ \A j \in 1..(Cardinality(rows) - 1) : Gap(rows, j) <= Gap(rows, k)
        /\ \A j \in 1..(k - 1) : Gap(rows, j) < Gap(rows, k)

\* Twice the MCut threshold of the rows.
TwiceMCut(rows) ==
    Descending(rows, FirstLargestGap(rows)) + Descending(rows, FirstLargestGap(rows) + 1)

\* C5: predict returns its four values for every prediction vector and threshold
\* setting, fixed or MCut, however few labels a group holds or accepts: it never
\* raises.
C5_NeverRaises == ~Raised

\* C6: under fixed thresholding the accepted general labels, and likewise the
\* accepted character labels, are exactly the members i of the group with
\* prob[i] > t: a member with prob[i] = t is rejected, none above t is dropped and
\* no label outside the group is accepted.
C6_FixedThreshold ==
    Returned =>
        /\ ~input.general_mcut_enabled =>
              AcceptedExactly(out.general_res, Rows(0), input.general_thresh)
        /\ ~input.character_mcut_enabled =>
              AcceptedExactly(out.character_res, Rows(4), input.character_thresh)

\* Under fixed thresholding: a general member at the general threshold, one above
\* it, a label outside the general group above the general threshold, and a
\* character label at the character threshold.
C6_Witness ==
    /\ Returned
    /\ ~input.general_mcut_enabled /\ ~input.character_mcut_enabled
    /\ \E i \in Rows(0) : Conf(i) = input.general_thresh
    /\ \E i \in Rows(0) : Conf(i) > input.general_thresh
    /\ \E i \in (1..Len(input.table)) \ Rows(0) : Conf(i) > input.general_thresh
    /\ \E i \in Rows(4) : Conf(i) = input.character_thresh

\* C7: for a group of at least two members mcut_threshold returns
\* (sorted[k] + sorted[k+1]) / 2, sorted being the confidences in descending order
\* and k the first index of the largest gap sorted[k] - sorted[k+1]; for
\* [0.9, 0.6, 0.5, 0.1] that is 0.3, and 0.9, 0.6 and 0.5 are accepted.
C7_MCut ==
    (Returned /\ input.general_mcut_enabled) =>
        /\ Cardinality(Rows(0)) >= 2
        /\ 2 * out.general_thresh = TwiceMCut(Rows(0))
        /\ AcceptedExactly(out.general_res, Rows(0), out.general_thresh)
        /\ (input.table = TableOf(<<0, 0, 0, 0>>) /\ input.preds = <<36, 24, 20, 4>>) =>
              /\ out.general_thresh = 12
              /\ { out.general_res[k].conf : k \in 1..Len(out.general_res) } = {36, 24, 20}

\* The worked example: [0.9, 0.6, 0.5, 0.1] under general MCut.
C7_Witness ==
    /\ Returned /\ input.general_mcut_enabled
    /\ input.table = TableOf(<<0, 0, 0, 0>>)
    /\ input.preds = <<36, 24, 20, 4>>
    /\ Len(out.general_res) = 3

\* C8: with character MCut the threshold applied to the character group is
\* max(0.15, MCut threshold), whatever threshold the caller gave, so no character
\* label of confidence <= 0.15 is accepted; the floor is applied neither to the
\* general group nor under fixed thresholding.
C8_CharacterFloor ==
    Returned =>
        /\ input.character_mcut_enabled =>
              /\ 2 * out.character_thresh = Max(12, TwiceMCut(Rows(4)))
              /\ AcceptedExactly(out.character_res, Rows(4), out.character_thresh)
              /\ \A k \in 1..Len(out.character_res) : out.character_res[k].conf > 6
        /\ ~input.character_mcut_enabled =>
              out.character_thresh = input.character_thresh
        /\ input.general_mcut_enabled =>
              2 * out.general_thresh = TwiceMCut(Rows(0))
        /\ ~input.general_mcut_enabled =>
              out.general_thresh = input.general_thresh

\* A character MCut threshold of 0.05 raised to 0.15, which rejects a character
\* label of confidence 0.1, while general MCut keeps its own 0.05 and accepts a
\* general label of confidence 0.1.
C8_Witness ==
    /\ Returned
    /\ input.character_mcut_enabled /\ input.general_mcut_enabled
    /\ TwiceMCut(Rows(4)) = 4 /\ out.character_thresh = 6
    /\ \E i \in Rows(4) : Conf(i) = 4
    /\ out.general_thresh = 2
    /\ \E k \in 1..Len(out.general_res) : out.general_res[k].conf = 4

\* The accepted general rows, and the place of each in the formatted string:
\* after every accepted row of greater confidence and every earlier accepted row
\* of the same confidence.
AcceptedGeneral == { i \in Rows(0) : Conf(i) > out.general_thresh }
Place(i) ==
    1 + Cardinality({ j \in AcceptedGeneral :
                        \/ Conf(j) > Conf(i)
                        \/ Conf(j) = Conf(i) /\ j < i })
RowAt(k) == CHOOSE i \in AcceptedGeneral : Place(i) = k

\* A name with a backslash put before each parenthesis.
RECURSIVE Escaped(_)
Escaped(name) ==
    IF name = <<>> THEN <<>>
    ELSE IF Head(name) \in {"(", ")"} THEN <<"\\", Head(name)>> \o Escaped(Tail(name))
    ELSE <<Head(name)>> \o Escaped(Tail(name))

RECURSIVE Listed(_)
Listed(k) ==
    IF k > Cardinality(AcceptedGeneral) THEN <<>>
    ELSE (IF k = 1 THEN <<>> ELSE <<",", " ">>) \o Escaped(TagName(RowAt(k))) \o Listed(k + 1)

\* C9: the formatted string lists exactly the accepted general tags, each once, by
\* descending confidence, tags of equal confidence in catalog order, joined by
\* ", ", every "(" and ")" preceded by a backslash and nothing else altered.
C9_FormattedString == Returned => out.sorted_general_strings = Listed(1)

\* Two accepted general tags of equal confidence after one of greater confidence
\* that comes later in the catalog, one of the names with parentheses.
C9_Witness ==
    /\ Returned
    /\ \E i, j, k \in AcceptedGeneral :
          /\ i < j /\ j < k
          /\ Conf(i) = Conf(j) /\ Conf(k) > Conf(i)
          /\ "(" \in { TagName(i)[n] : n \in 1..Len(TagName(i)) }
             \/ "(" \in { TagName(j)[n] : n \in 1..Len(TagName(j)) }

=============================================================================
